---- MODULE Spec2Model ----
(***************************************************************************)
(* ParquetLocalDataSet (kedro/io/parquet_local.py): load, save, exists and *)
(* describe of a local parquet data set, unversioned or versioned, over a  *)
(* shared local file system.  Several data set instances work on the same  *)
(* filepath; a save is split at the points where it touches the file       *)
(* system, so that saves of different instances interleave.                *)
(*                                                                         *)
(* The helpers imported from kedro.io.core (FilepathVersionMixIn,          *)
(* generate_current_version, Version) are modelled from their contract in  *)
(* the specification, sections 3, 4.1 - 4.3 and 7.                         *)
(***************************************************************************)
EXTENDS Integers, FiniteSets, Sequences, TLC

\* Version tokens are 1..MaxTok, ordered as integers (the token ordering).
MaxTok == 2

Tokens == 1..MaxTok

\* None, for a load or save token that is not pinned.
Null == 0

\* The data frames handed to save.
Payloads == {"df1", "df2"}

\* The data set instances (parallel pipeline workers).
Instances == {"A", "B"}

\* The filepath every instance is constructed with.
FilePath == "data/out.parquet"

\* kedro.io.core.Version: a (load, save) pair; on = FALSE stands for version=None.
NoVersion == [on |-> FALSE, load |-> Null, save |-> Null]

Versions ==
    {NoVersion} \cup
    {[on |-> TRUE, load |-> l, save |-> s] : l \in Tokens \cup {Null}, s \in Tokens \cup {Null}}

\* A path: ver = Null is the filepath itself, ver = t is <filepath>/<t>/<name>;
\* abs tells whether the path has been anchored at the working directory.
Paths == [abs : BOOLEAN, fp : {FilePath}, ver : Tokens \cup {Null}]

NoPath == [abs |-> FALSE, fp |-> "", ver |-> Null]

\* The content of a path that holds no file.
NoFile == <<>>

\* The result of a call that has not happened.
NoCall == [inst |-> "", op |-> "", arg |-> "", val |-> "", err |-> "", paths |-> <<>>]

VARIABLES
    cfg,        \* cfg[i]: self._filepath and self._version of instance i
    file,       \* the bytes of the regular file at the filepath, or NoFile
    dirs,       \* the tokens t whose folder <filepath>/<t>/ exists
    vfile,      \* vfile[t]: the bytes of <filepath>/<t>/<name>, or NoFile
    pc,         \* pc[i]: where instance i stands in _save ("idle" outside it)
    save_path,  \* save_path[i]: the local save_path of the running _save
    data,       \* data[i]: the argument of the running _save
    lastGen,    \* lastGen[i]: the last token generated in worker i (0: none)
    generated,  \* the tokens generated so far, by any worker
    autoPaths,  \* the save paths resolved so far by saves that generated their token
    clean,      \* clean[i]: "saving" while i's save runs and, once it returned, its
                \* payload, as long as no other instance has changed the store
                \* since that save began; "" otherwise
    out         \* the last call that returned: who, what, and its result

vars == <<cfg, file, dirs, vfile, pc, save_path, data, lastGen, generated, autoPaths, clean, out>>

----------------------------------------------------------------------------
\* The codec: what to_parquet writes and read_parquet gives back.

Encode(x) == <<"PAR1", x>>

Decode(b) == b[2]

----------------------------------------------------------------------------
\* Results of the path helpers: err = "" when the helper returned path.

Ok(p) == [err |-> "", path |-> p]

Raise(e) == [err |-> e, path |-> NoPath]

Max(S) == CHOOSE t \in S : \A u \in S : u <= t

\* Path.absolute(): anchors a relative path at the working directory.
absolute(p) == [p EXCEPT !.abs = TRUE]

\* <dir>/<version>/<basename>
_get_versioned_path(filepath, version) == [abs |-> FALSE, fp |-> filepath, ver |-> version]

\* A slip: Path.exists() for Path.is_file(): a folder passes too.
path_exists(p) == IF p.ver = Null THEN file # NoFile \/ dirs # {} ELSE vfile[p.ver] # NoFile

\* Path(path).is_file(): whether a regular file exists at path p.
is_file(p) == IF p.ver = Null THEN file # NoFile ELSE vfile[p.ver] # NoFile

\* resolve_for_load: the filepath itself without a version, the pinned token's
\* path, or the path of the greatest existing version folder.  fault: the
\* backend cannot list the version folders.
_get_load_path(filepath, version, fault) ==
    IF ~version.on THEN Ok([abs |-> FALSE, fp |-> filepath, ver |-> Null])
    ELSE IF version.load # Null THEN Ok(_get_versioned_path(filepath, version.load))
    ELSE IF fault THEN Raise("StorageAccessError")
    ELSE IF dirs = {} THEN Raise("NoVersionFoundError")
    ELSE Ok(_get_versioned_path(filepath, Max(dirs)))

\* generate(): the tokens a call in worker i may return now: greater than every
\* token generated earlier in the worker, equal to no token generated anywhere.
generate_current_version(i) == {t \in Tokens : t > lastGen[i] /\ t \notin generated}

\* resolve_for_save: the filepath itself without a version, else the path of the
\* pinned save token or of the fresh token t; a version once written is not
\* written again.
_get_save_path(filepath, version, t) ==
    IF ~version.on THEN Ok([abs |-> FALSE, fp |-> filepath, ver |-> Null])
    ELSE LET save_version == IF version.save # Null THEN version.save ELSE t
             versioned_path == _get_versioned_path(filepath, save_version)
         IN  IF is_file(versioned_path) THEN Raise("DataSetError")
             ELSE Ok(versioned_path)

\* check(resolved_save_path, resolved_load_path)
_check_paths_consistency(load_path, save_path_) ==
    IF load_path = save_path_ THEN "" ELSE "VersionConsistencyError"

----------------------------------------------------------------------------
\* What the calls return.

Returned(i, op, arg, val, err, paths) ==
    [inst |-> i, op |-> op, arg |-> arg, val |-> val, err |-> err, paths |-> paths]

\* pd.read_parquet(load_path): the possible results, a payload or "" for a failed read.
read_parquet(p) ==
    IF p.ver # Null
    THEN IF vfile[p.ver] # NoFile THEN {Decode(vfile[p.ver])} ELSE {""}
    ELSE IF file # NoFile THEN {Decode(file)}
    ELSE IF dirs = {} THEN {""}
    ELSE {""} \cup {Decode(vfile[t]) : t \in {u \in Tokens : vfile[u] # NoFile}}

\* A slip: the load reads the filepath itself, whatever the version.
_load_filepath(i, fault) ==
    LET p == [abs |-> FALSE, fp |-> cfg[i].filepath, ver |-> Null]
    IN  {Returned(i, "load", "", r, IF r = "" THEN "DataAccessError" ELSE "", <<p>>) :
            r \in read_parquet(p)}

\* A slip: the load keeps the path it resolved first, the oldest version's.
_load_stale(i, fault) ==
    LET version == cfg[i].version
        load_path ==
            IF version.on /\ version.load = Null /\ dirs # {}
            THEN Ok(_get_versioned_path(cfg[i].filepath, CHOOSE t \in dirs : \A u \in dirs : t <= u))
            ELSE _get_load_path(cfg[i].filepath, version, fault)
    IN  IF load_path.err # ""
        THEN {Returned(i, "load", "", "", load_path.err, <<>>)}
        ELSE {Returned(i, "load", "", r, IF r = "" THEN "DataAccessError" ELSE "",
                       <<load_path.path>>) : r \in read_parquet(load_path.path)}

\* _load: resolve the load path, then read it.
_load(i, fault) ==
    LET load_path == _get_load_path(cfg[i].filepath, cfg[i].version, fault)
    IN  IF load_path.err # ""
        THEN {Returned(i, "load", "", "", load_path.err, <<>>)}
        ELSE {Returned(i, "load", "", r, IF r = "" THEN "DataAccessError" ELSE "",
                       <<load_path.path>>) : r \in read_parquet(load_path.path)}

\* A slip: no except clause, a failed resolution always propagates.
_exists_no_catch(i, fault) ==
    LET path == _get_load_path(cfg[i].filepath, cfg[i].version, fault)
    IN  IF path.err # ""
        THEN Returned(i, "exists", "", "", path.err, <<>>)
        ELSE Returned(i, "exists", "", IF is_file(path.path) THEN "True" ELSE "False", "",
                      <<path.path>>)

\* A slip: a bare except, every failed resolution is reported as False.
_exists_catch_all(i, fault) ==
    LET path == _get_load_path(cfg[i].filepath, cfg[i].version, fault)
    IN  IF path.err # ""
        THEN Returned(i, "exists", "", "False", "", <<>>)
        ELSE Returned(i, "exists", "", IF is_file(path.path) THEN "True" ELSE "False", "",
                      <<path.path>>)

\* _exists: False when the load path does not resolve for want of a version.
_exists(i, fault) ==
    LET path == _get_load_path(cfg[i].filepath, cfg[i].version, fault)
    IN  IF path.err = "NoVersionFoundError"
        THEN Returned(i, "exists", "", "False", "", <<>>)
        ELSE IF path.err # ""
        THEN Returned(i, "exists", "", "", path.err, <<>>)
        ELSE Returned(i, "exists", "", IF is_file(path.path) THEN "True" ELSE "False", "",
                      <<path.path>>)

\* A slip: describe reports the version it would load, which takes a listing.
_describe_resolved(i) ==
    [filepath |-> cfg[i].filepath, engine |-> cfg[i].engine,
     load_args |-> cfg[i].load_args, save_args |-> cfg[i].save_args,
     version |-> IF cfg[i].version.on /\ cfg[i].version.load = Null /\ dirs # {}
                 THEN [cfg[i].version EXCEPT !.load = Max(dirs)]
                 ELSE cfg[i].version]

\* _describe: the configuration, read from the instance alone.
_describe(i) ==
    [filepath |-> cfg[i].filepath, engine |-> cfg[i].engine,
     load_args |-> cfg[i].load_args, save_args |-> cfg[i].save_args,
     version |-> cfg[i].version]

----------------------------------------------------------------------------
\* Option dictionaries are sets of <<name, value>> pairs; given = FALSE is None.
NoArgs == [given |-> FALSE, opts |-> {}]

Args(opts) == [given |-> TRUE, opts |-> opts]

default_load_args == {}

default_save_args == {<<"compression", "None">>}

\* {**default, **args} if args is not None else default
Merge(default, args) ==
    IF args.given
    THEN {d \in default : \A a \in args.opts : a[1] # d[1]} \cup args.opts
    ELSE default

\* The arguments the instances are constructed with, besides the version.
Given ==
    [i \in Instances |->
        IF i = "A"
        THEN [filepath |-> FilePath, engine |-> "auto",
              load_args |-> NoArgs, save_args |-> NoArgs]
        ELSE [filepath |-> FilePath, engine |-> "pyarrow",
              load_args |-> Args({<<"columns", "col1">>}),
              save_args |-> Args({<<"compression", "snappy">>})]]

\* __init__: the attributes of a new instance.
Construct(filepath, engine, load_args, save_args, version) ==
    [filepath |-> filepath, engine |-> engine,
     load_args |-> Merge(default_load_args, load_args),
     save_args |-> Merge(default_save_args, save_args),
     version |-> version]

\* The configurations the instances can have.
Configs ==
    {[i \in Instances |->
        Construct(Given[i].filepath, Given[i].engine, Given[i].load_args,
                  Given[i].save_args, v[i])] : v \in [Instances -> Versions]}

----------------------------------------------------------------------------
TypeOK ==
    /\ cfg \in Configs
    /\ file \in {NoFile} \cup {Encode(x) : x \in Payloads}
    /\ dirs \subseteq Tokens
    /\ vfile \in [Tokens -> {NoFile} \cup {Encode(x) : x \in Payloads}]
    /\ pc \in [Instances -> {"idle", "mkdir", "write", "check"}]
    /\ save_path \in [Instances -> Paths \cup {NoPath}]
    /\ data \in [Instances -> Payloads \cup {""}]
    /\ lastGen \in [Instances -> Tokens \cup {0}]
    /\ generated \subseteq Tokens
    /\ autoPaths \subseteq Paths
    /\ clean \in [Instances -> Payloads \cup {"", "saving"}]
    /\ out \in [inst : Instances \cup {""}, op : {"", "save", "load", "exists", "describe"},
                arg : Payloads \cup {""}, val : Payloads \cup {"", "ok", "True", "False"},
                err : {"", "DataSetError", "StorageAccessError", "NoVersionFoundError",
                       "DataAccessError", "VersionConsistencyError"},
                paths : Seq(Paths \cup {_describe(i) : i \in Instances})]

\* __init__: every instance gets the filepath and some version; the store is empty.
Init ==
    /\ cfg \in Configs
    /\ file = NoFile
    /\ dirs = {}
    /\ vfile = [t \in Tokens |-> NoFile]
    /\ pc = [i \in Instances |-> "idle"]
    /\ save_path = [i \in Instances |-> NoPath]
    /\ data = [i \in Instances |-> ""]
    /\ lastGen = [i \in Instances |-> 0]
    /\ generated = {}
    /\ autoPaths = {}
    /\ clean = [i \in Instances |-> ""]
    /\ out = NoCall

\* Instance i changes the store: no other instance's save is undisturbed any more.
Disturb(i) == [j \in Instances |-> IF j = i THEN clean[i] ELSE ""]

\* Whether instance i's saves generate their token.
Auto(i) == cfg[i].version.on /\ cfg[i].version.save = Null

\* A slip: the save names its version by the count of the worker's own saves.
resolve_save_path_own_count(i, t) ==
    _get_save_path(cfg[i].filepath, cfg[i].version, lastGen[i] + 1)

\* A slip: the save resolves its path as a load does, to the latest version.
resolve_save_path_as_load(i, t) ==
    IF Auto(i) THEN _get_load_path(cfg[i].filepath, cfg[i].version, FALSE)
    ELSE _get_save_path(cfg[i].filepath, cfg[i].version, t)

\* _save, line 139: self._get_save_path(self._filepath, self._version).
resolve_save_path(i, t) == _get_save_path(cfg[i].filepath, cfg[i].version, t)

\* A slip: the save keeps the token it generated as the instance's save version.
self_after_save_pinned(i, t) ==
    IF Auto(i) THEN [cfg[i] EXCEPT !.version.save = t] ELSE cfg[i]

\* _save, lines 138-146: no attribute of self is assigned.
self_after_save(i, t) == cfg[i]

\* _save, line 139: resolve the save path once (generating token t if none is pinned).
SaveResolve(i, x, t) ==
    /\ pc[i] = "idle"
    /\ LET auto == Auto(i)
           r == resolve_save_path(i, t)
       IN  /\ IF auto THEN t \in generate_current_version(i) ELSE t = Null
           /\ lastGen' = IF auto THEN [lastGen EXCEPT ![i] = t] ELSE lastGen
           /\ generated' = IF auto THEN generated \cup {t} ELSE generated
           /\ autoPaths' = IF auto /\ r.err = "" THEN autoPaths \cup {r.path} ELSE autoPaths
           /\ IF r.err # ""
              THEN /\ out' = Returned(i, "save", x, "", r.err, <<>>)
                   /\ clean' = [clean EXCEPT ![i] = ""]
                   /\ UNCHANGED <<pc, save_path, data>>
              ELSE /\ pc' = [pc EXCEPT ![i] = "mkdir"]
                   /\ save_path' = [save_path EXCEPT ![i] = r.path]
                   /\ data' = [data EXCEPT ![i] = x]
                   /\ clean' = [clean EXCEPT ![i] = "saving"]
                   /\ UNCHANGED out
    /\ cfg' = [cfg EXCEPT ![i] = self_after_save(i, t)]
    /\ UNCHANGED <<file, dirs, vfile>>

\* The end of a _save that raised: its locals are gone.
Abort(i, e, paths) ==
    /\ out' = Returned(i, "save", data[i], "", e, paths)
    /\ pc' = [pc EXCEPT ![i] = "idle"]
    /\ save_path' = [save_path EXCEPT ![i] = NoPath]
    /\ data' = [data EXCEPT ![i] = ""]
    /\ clean' = [clean EXCEPT ![i] = ""]

\* _save, line 140: save_path.parent.mkdir(parents=True, exist_ok=True).  The
\* parent of a versioned path lies under the filepath, which must not be a file.
SaveMkdir(i) ==
    /\ pc[i] = "mkdir"
    /\ IF save_path[i].ver = Null
       THEN /\ pc' = [pc EXCEPT ![i] = "write"]
            /\ UNCHANGED <<dirs, clean, out, save_path, data>>
       ELSE IF file # NoFile
       THEN /\ Abort(i, "StorageAccessError", <<>>)
            /\ UNCHANGED dirs
       ELSE /\ dirs' = dirs \cup {save_path[i].ver}
            /\ clean' = IF save_path[i].ver \in dirs THEN clean ELSE Disturb(i)
            /\ pc' = [pc EXCEPT ![i] = "write"]
            /\ UNCHANGED <<out, save_path, data>>
    /\ UNCHANGED <<cfg, file, vfile, lastGen, generated, autoPaths>>

\* A slip: the payload goes into the latest version folder.
write_path_latest(i) ==
    IF save_path[i].ver = Null THEN save_path[i]
    ELSE _get_versioned_path(cfg[i].filepath, Max(dirs))

\* A slip: the save path is resolved again for the write, with a new token.
write_path_reresolved(i) ==
    IF Auto(i) /\ lastGen[i] < MaxTok
    THEN _get_versioned_path(cfg[i].filepath, lastGen[i] + 1)
    ELSE save_path[i]

\* _save, line 141: the path the payload is written to.
write_path(i) == save_path[i]

\* A slip: the write is put off, the check runs on a path not yet written.
SaveWrite_deferred(i) ==
    /\ pc[i] = "write"
    /\ pc' = [pc EXCEPT ![i] = "check"]
    /\ UNCHANGED <<cfg, file, dirs, vfile, save_path, data, lastGen, generated,
                   autoPaths, clean, out>>

\* _save, line 141: data.to_parquet(save_path).  The filepath of an unversioned
\* data set cannot be written while it is a folder of versions.
SaveWrite(i) ==
    /\ pc[i] = "write"
    /\ IF write_path(i).ver = Null
       THEN IF dirs # {}
            THEN /\ Abort(i, "StorageAccessError", <<>>)
                 /\ UNCHANGED <<file, vfile>>
            ELSE /\ file' = Encode(data[i])
                 /\ clean' = Disturb(i)
                 /\ pc' = [pc EXCEPT ![i] = "check"]
                 /\ UNCHANGED <<vfile, out, save_path, data>>
       ELSE /\ vfile' = [vfile EXCEPT ![write_path(i).ver] = Encode(data[i])]
            /\ clean' = Disturb(i)
            /\ pc' = [pc EXCEPT ![i] = "check"]
            /\ UNCHANGED <<file, out, save_path, data>>
    /\ UNCHANGED <<cfg, dirs, lastGen, generated, autoPaths>>

\* A slip: the save path is compared as it is, not made absolute.
check_paths_relative(i, load_path) ==
    _check_paths_consistency(absolute(load_path), save_path[i])

\* A slip: the save path is checked against itself.
check_paths_self(i, load_path) ==
    _check_paths_consistency(absolute(save_path[i]), absolute(save_path[i]))

\* _save, lines 144-146: the consistency check of the two absolute paths.
check_paths(i, load_path) ==
    _check_paths_consistency(absolute(load_path), absolute(save_path[i]))

\* A slip: a save that fails the check removes what it wrote.
SaveCheck_rollback(i, fault) ==
    /\ pc[i] = "check"
    /\ LET load_path == _get_load_path(cfg[i].filepath, cfg[i].version, fault)
           e == check_paths(i, load_path.path)
       IN  IF load_path.err # ""
           THEN Abort(i, load_path.err, <<>>) /\ UNCHANGED vfile
           ELSE IF e # ""
           THEN /\ Abort(i, e, <<absolute(load_path.path), absolute(save_path[i])>>)
                /\ vfile' = [vfile EXCEPT ![save_path[i].ver] = NoFile]
           ELSE /\ out' = Returned(i, "save", data[i], "ok", "", <<absolute(save_path[i])>>)
                /\ pc' = [pc EXCEPT ![i] = "idle"]
                /\ save_path' = [save_path EXCEPT ![i] = NoPath]
                /\ data' = [data EXCEPT ![i] = ""]
                /\ clean' = [clean EXCEPT ![i] = IF clean[i] = "saving" THEN data[i] ELSE ""]
                /\ UNCHANGED vfile
    /\ UNCHANGED <<cfg, file, dirs, lastGen, generated, autoPaths>>

\* _save, lines 143-146: resolve the load path again and compare it with the
\* save path; the call returns, or raises with both paths.
SaveCheck(i, fault) ==
    /\ pc[i] = "check"
    /\ LET load_path == _get_load_path(cfg[i].filepath, cfg[i].version, fault)
           e == check_paths(i, load_path.path)
       IN  IF load_path.err # ""
           THEN Abort(i, load_path.err, <<>>)
           ELSE IF e # ""
           THEN Abort(i, e, <<absolute(load_path.path), absolute(save_path[i])>>)
           ELSE /\ out' = Returned(i, "save", data[i], "ok", "", <<absolute(save_path[i])>>)
                /\ pc' = [pc EXCEPT ![i] = "idle"]
                /\ save_path' = [save_path EXCEPT ![i] = NoPath]
                /\ data' = [data EXCEPT ![i] = ""]
                /\ clean' = [clean EXCEPT ![i] = IF clean[i] = "saving" THEN data[i] ELSE ""]
    /\ UNCHANGED <<cfg, file, dirs, vfile, lastGen, generated, autoPaths>>

\* load()
Load(i, fault) ==
    /\ pc[i] = "idle"
    /\ out' \in _load(i, fault)
    /\ UNCHANGED <<cfg, file, dirs, vfile, pc, save_path, data, lastGen, generated,
                   autoPaths, clean>>

\* exists()
Exists(i, fault) ==
    /\ pc[i] = "idle"
    /\ out' = _exists(i, fault)
    /\ UNCHANGED <<cfg, file, dirs, vfile, pc, save_path, data, lastGen, generated,
                   autoPaths, clean>>

\* describe()
Describe(i) ==
    /\ pc[i] = "idle"
    /\ out' = Returned(i, "describe", "", "", "", <<_describe(i)>>)
    /\ UNCHANGED <<cfg, file, dirs, vfile, pc, save_path, data, lastGen, generated,
                   autoPaths, clean>>

Next ==
    \/ \E i \in Instances, x \in Payloads, t \in Tokens \cup {Null} : SaveResolve(i, x, t)
    \/ \E i \in Instances : SaveMkdir(i)
    \/ \E i \in Instances : SaveWrite(i)
    \/ \E i \in Instances, fault \in BOOLEAN : SaveCheck(i, fault)
    \/ \E i \in Instances, fault \in BOOLEAN : Load(i, fault)
    \/ \E i \in Instances, fault \in BOOLEAN : Exists(i, fault)
    \/ \E i \in Instances : Describe(i)

Spec == Init /\ [][Next]_vars

----------------------------------------------------------------------------
\* C1.  Round trip: when a save of x by instance i has returned without error
\* and no other instance has changed the store since that save began, a load
\* by i (the version listing being readable) returns exactly x, whatever the
\* configuration of i.
C1_RoundTrip ==
    \A i \in Instances :
        (out.op = "load" /\ out.inst = i /\ clean[i] \in Payloads
            /\ out.err # "StorageAccessError")
        => (out.err = "" /\ out.val = clean[i])

\* A versioned instance with neither token pinned loaded back what it saved,
\* with an older version of other content in the store.
C1_Witness ==
    \E i \in Instances :
        /\ out.op = "load" /\ out.inst = i /\ out.err = ""
        /\ clean[i] \in Payloads /\ out.val = clean[i]
        /\ Auto(i) /\ cfg[i].version.load = Null
        /\ \E t \in Tokens : vfile[t] # NoFile /\ vfile[t] # Encode(clean[i])

\* C2.  Every load of a versioned instance with no load token pinned resolves,
\* from the version folders existing at the call, to the one with the greatest
\* token, and returns its content; with no version folder it fails.
C2_LoadResolvesLatest ==
    [][\A i \in Instances :
        (cfg[i].version.on /\ cfg[i].version.load = Null /\ Load(i, FALSE))
        => IF dirs = {}
           THEN out'.err = "NoVersionFoundError"
           ELSE /\ Len(out'.paths) = 1
                /\ out'.paths[1].fp = cfg[i].filepath
                /\ out'.paths[1].ver \in dirs
                /\ \A t \in dirs : t <= out'.paths[1].ver
                /\ vfile[out'.paths[1].ver] # NoFile
                    => out'.val = Decode(vfile[out'.paths[1].ver])]_vars

\* An unpinned load returned df2 from version 2 while version 1 holds df1.
C2_Witness ==
    /\ out.op = "load" /\ out.err = "" /\ out.val = "df2"
    /\ cfg[out.inst].version.on /\ cfg[out.inst].version.load = Null
    /\ out.paths = <<_get_versioned_path(FilePath, 2)>>
    /\ vfile[1] = Encode("df1") /\ vfile[2] = Encode("df2")
    /\ \A i \in Instances : pc[i] = "idle"

\* C3.  The save path a save with a generated token resolves differs from the
\* save path of every earlier save with a generated token.
C3_AutoSavePathsDistinct ==
    [][\A i \in Instances :
        (Auto(i) /\ pc[i] = "idle" /\ pc'[i] = "mkdir")
        => (save_path'[i] \notin autoPaths /\ save_path'[i].ver # Null)]_vars

\* Two saves with generated tokens have both written, each its own version.
C3_Witness ==
    /\ Cardinality(autoPaths) = 2
    /\ \A p \in autoPaths : vfile[p.ver] # NoFile
    /\ \A i \in Instances : Auto(i) /\ pc[i] = "idle"

\* C4.  Two instances that generate their save tokens and are inside save at
\* the same time hold different save paths.
C4_ConcurrentSavesApart ==
    \A i, j \in Instances :
        (i # j /\ Auto(i) /\ Auto(j) /\ pc[i] # "idle" /\ pc[j] # "idle")
        => save_path[i] # save_path[j]

\* Both instances are about to write, each to its own path.
C4_Witness ==
    /\ \A i \in Instances : Auto(i) /\ pc[i] = "write"
    /\ \A i, j \in Instances : i # j => save_path[i] # save_path[j]

\* C5.  A version once written is never overwritten: a step of the save of an
\* instance with pinned save token T leaves an existing version T as it is,
\* and a save begun while version T exists fails at once.
C5_NeverOverwritten ==
    [][\A i \in Instances :
        LET T == cfg[i].version.save
        IN  (cfg[i].version.on /\ T # Null /\ vfile[T] # NoFile /\ pc'[i] # pc[i])
            => /\ vfile'[T] = vfile[T]
               /\ pc[i] = "idle" => (pc'[i] = "idle" /\ out'.err = "DataSetError")]_vars

\* C6.  The last step of save resolves the load path again: when its absolute
\* path equals the absolute save path the save returns, otherwise it fails
\* with the consistency error, which carries the load path and the save path.
C6_ConsistencyCheck ==
    [][\A i \in Instances :
        SaveCheck(i, FALSE)
        => LET v == cfg[i].version
               lv == IF ~v.on THEN Null
                     ELSE IF v.load # Null THEN v.load
                     ELSE CHOOSE t \in dirs : \A u \in dirs : u <= t
               lp == [abs |-> TRUE, fp |-> cfg[i].filepath, ver |-> lv]
               sp == [save_path[i] EXCEPT !.abs = TRUE]
           IN  /\ out'.inst = i /\ out'.op = "save" /\ pc'[i] = "idle"
               /\ IF lp = sp
                  THEN out'.err = "" /\ out'.val = "ok"
                  ELSE out'.err = "VersionConsistencyError" /\ out'.paths = <<lp, sp>>]_vars

\* A save with a generated token failed the check: between its write and its
\* check a folder with a greater token appeared.
C6_Witness ==
    /\ out.op = "save" /\ out.err = "VersionConsistencyError"
    /\ Auto(out.inst) /\ cfg[out.inst].version.load = Null
    /\ Len(out.paths) = 2 /\ out.paths[1].abs /\ out.paths[2].abs
    /\ out.paths[1].ver > out.paths[2].ver
    /\ vfile[out.paths[2].ver] = Encode(out.arg)

\* C7.  For a versioned instance with no load token pinned (the version listing
\* being readable), exists() returns False without raising while no version
\* has been written, and True after a save of the instance that returned
\* without error and that no other instance's write has followed.
C7_ExistsAroundSave ==
    \A i \in Instances :
        (out.op = "exists" /\ out.inst = i /\ cfg[i].version.on
            /\ cfg[i].version.load = Null /\ out.err # "StorageAccessError")
        => /\ (\A t \in Tokens : vfile[t] = NoFile) => (out.err = "" /\ out.val = "False")
           /\ clean[i] \in Payloads => (out.err = "" /\ out.val = "True")

\* exists() answered True right after the instance's own successful save.
C7_Witness ==
    \E i \in Instances :
        /\ out.op = "exists" /\ out.inst = i /\ out.val = "True"
        /\ cfg[i].version.on /\ cfg[i].version.load = Null
        /\ clean[i] \in Payloads

C9_PinnedLoadIsolated ==
    [][\A T \in Tokens :
        vfile[T] # NoFile
        => /\ vfile'[T] # vfile[T]
               => \E j \in Instances :
                    pc[j] = "write" /\ pc'[j] = "check" /\ save_path[j].ver = T
           /\ \A i \in Instances :
                (cfg[i].version.on /\ cfg[i].version.load = T /\ Load(i, FALSE))
                => (out'.err = "" /\ out'.val = Decode(vfile[T]))]_vars

\* With df1 in version 1 and df2 in version 2, and every save over, a load
\* pinned to version 1 returned df1.
C9_Witness ==
    /\ out.op = "load" /\ out.err = "" /\ out.val = "df1"
    /\ cfg[out.inst].version.on /\ cfg[out.inst].version.load = 1
    /\ vfile[1] = Encode("df1") /\ vfile[2] = Encode("df2")
    /\ \A i \in Instances : pc[i] = "idle"

\* C10.  An unversioned instance saves to the filepath itself and loads from
\* it, its steps leave the version folders and their files alone, and its
\* exists() resolves without a listing and tells whether the file is there.
C10_Unversioned ==
    [][\A i \in Instances :
        ~cfg[i].version.on
        => LET plain == [abs |-> FALSE, fp |-> cfg[i].filepath, ver |-> Null]
           IN  /\ (pc[i] = "idle" /\ pc'[i] = "mkdir") => save_path'[i] = plain
               /\ pc'[i] # pc[i] => (dirs' = dirs /\ vfile' = vfile)
               /\ (pc[i] = "write" /\ pc'[i] = "check") => file' = Encode(data[i])
               /\ \A fault \in BOOLEAN :
                    /\ Load(i, fault)
                        => /\ out'.paths = <<plain>>
                           /\ file # NoFile => (out'.err = "" /\ out'.val = Decode(file))
                    /\ Exists(i, fault)
                        => /\ out'.err = ""
                           /\ out'.val = IF file # NoFile THEN "True" ELSE "False"]_vars

\* An unversioned instance saved, and its exists() then answered True.
C10_Witness ==
    \E i \in Instances :
        /\ ~cfg[i].version.on /\ out.op = "exists" /\ out.inst = i /\ out.val = "True"
        /\ clean[i] \in Payloads /\ file = Encode(clean[i]) /\ dirs = {}

C12_NoRollback ==
    [][\A i \in Instances :
        (SaveCheck(i, FALSE) /\ out'.err = "VersionConsistencyError")
        => LET T == save_path[i].ver
           IN  /\ T # Null
               /\ file' = file /\ dirs' = dirs /\ vfile' = vfile
               /\ vfile'[T] # NoFile
               /\ clean[i] = "saving" => vfile'[T] = Encode(data[i])
               /\ \A j \in Instances :
                    (cfg[j].version.on /\ cfg[j].version.load = T)
                    => \A r \in _load(j, FALSE)' :
                         r.err = "" /\ r.val = Decode(vfile'[T])]_vars

\* A save of df1 under token 2 by an instance whose load is pinned to 1 failed
\* the check, and version 2 holds df1.
C12_Witness ==
    /\ out.op = "save" /\ out.err = "VersionConsistencyError" /\ out.arg = "df1"
    /\ cfg[out.inst].version.on /\ cfg[out.inst].version.load = 1
    /\ out.paths[2].ver = 2 /\ vfile[2] = Encode("df1")
    /\ pc[out.inst] = "idle"

\* C13.  No call changes an instance's configuration: the filepath, the
\* engine, the merged load and save options and the version stay what the
\* constructor made of its arguments.
C13_ConfigFixed ==
    [][cfg' = cfg /\ cfg' \in Configs]_vars

\* An instance that generates its tokens has saved, its save token is still
\* not pinned, and describe() reports the configuration it was built with.
C13_Witness ==
    \E i \in Instances :
        /\ Auto(i) /\ lastGen[i] > 0 /\ clean[i] \in Payloads
        /\ vfile[lastGen[i]] = Encode(clean[i])
        /\ out.op = "describe" /\ out.inst = i
        /\ out.paths = <<Construct(Given[i].filepath, Given[i].engine, Given[i].load_args,
                                   Given[i].save_args, cfg[i].version)>>
        /\ out.paths[1].version.save = Null

\* C14.  A save goes through resolve, mkdir, write and check in this order; the
\* consistency error is raised only by the check step of a save, when the file
\* at its save path has been written; the resolve step changes nothing in the
\* store, the mkdir step no file, and no load or exists raises that error.
C14_CheckAfterWrite ==
    [][\A i \in Instances :
        /\ pc'[i] # pc[i]
            => <<pc[i], pc'[i]>> \in {<<"idle", "mkdir">>, <<"mkdir", "write">>,
                                      <<"write", "check">>, <<"check", "idle">>,
                                      <<"mkdir", "idle">>, <<"write", "idle">>}
        /\ (pc[i] = "idle" /\ pc'[i] = "mkdir")
            => (file' = file /\ dirs' = dirs /\ vfile' = vfile)
        /\ (pc[i] = "mkdir" /\ pc'[i] = "write") => (file' = file /\ vfile' = vfile)
        /\ (pc[i] = "write" /\ pc'[i] = "check") => is_file(save_path[i])'
        /\ (out' # out /\ out'.inst = i /\ out'.err = "VersionConsistencyError")
            => (out'.op = "save" /\ pc[i] = "check" /\ pc'[i] = "idle"
                /\ is_file(save_path[i]))]_vars

\* A save has failed the consistency check, its payload being in the store.
C14_Witness ==
    /\ out.op = "save" /\ out.err = "VersionConsistencyError"
    /\ pc[out.inst] = "idle"
    /\ vfile[out.paths[2].ver] = Encode(out.arg)

\* C15.  From its resolution to the end of a save the save path is one value:
\* the folder made is its parent, the file written is the file at it, the
\* check reports it, and no further token is generated inside the save.
C15_SavePathResolvedOnce ==
    [][\A i \in Instances :
        pc[i] # "idle"
        => LET sp == save_path[i]
           IN  /\ pc'[i] # "idle" => save_path'[i] = sp
               /\ lastGen'[i] = lastGen[i]
               /\ (pc[i] = "mkdir" /\ pc'[i] = "write")
                    => dirs' = IF sp.ver = Null THEN dirs ELSE dirs \cup {sp.ver}
               /\ (pc[i] = "write" /\ pc'[i] = "check")
                    => IF sp.ver = Null
                       THEN file' = Encode(data[i]) /\ vfile' = vfile
                       ELSE /\ file' = file
                            /\ vfile' = [vfile EXCEPT ![sp.ver] = Encode(data[i])]
               /\ (pc[i] = "check" /\ pc'[i] = "idle" /\ out'.err = "")
                    => out'.paths = <<[sp EXCEPT !.abs = TRUE]>>
               /\ (pc[i] = "check" /\ pc'[i] = "idle"
                        /\ out'.err = "VersionConsistencyError")
                    => out'.paths[2] = [sp EXCEPT !.abs = TRUE]]_vars

\* A save with a generated token has returned, its one path made, written and
\* passed to the check.
C15_Witness ==
    /\ out.op = "save" /\ out.err = "" /\ Auto(out.inst)
    /\ Len(out.paths) = 1 /\ out.paths[1].ver = lastGen[out.inst]
    /\ out.paths[1].ver \in dirs
    /\ vfile[out.paths[1].ver] = Encode(out.arg)

\* C16.  When an instance with neither token pinned reaches the check of its
\* save while a version folder with a greater token than its own is in the
\* store, its save fails with the consistency error although its own version
\* is written; concurrent writers reach this.
C16_FalsePositiveMismatch ==
    [][\A i \in Instances :
        (Auto(i) /\ cfg[i].version.load = Null /\ SaveCheck(i, FALSE)
            /\ \E t \in dirs : t > save_path[i].ver)
        => /\ out'.op = "save" /\ out'.inst = i
           /\ out'.err = "VersionConsistencyError"
           /\ vfile'[save_path[i].ver] # NoFile
           /\ out'.paths[1].ver > out'.paths[2].ver]_vars

\* Writer A wrote its payload under token 1, writer B's token 2, generated as
\* well, was in the store at A's check, and A's save failed.
C16_Witness ==
    \E i, j \in Instances :
        /\ i # j /\ Auto(i) /\ Auto(j)
        /\ cfg[i].version.load = Null
        /\ out.inst = i /\ out.op = "save" /\ out.err = "VersionConsistencyError"
        /\ out.paths[2].ver = lastGen[i] /\ vfile[lastGen[i]] = Encode(out.arg)
        /\ out.paths[1].ver = lastGen[j] /\ lastGen[j] > lastGen[i]

\* C17.  A step in which load, exists or describe returns or raises leaves the
\* file at the filepath, the version folders and their files as they are, and
\* what describe returns is the instance's configuration and nothing else.
C17_ReadOnly ==
    [][(out' # out /\ out'.op \in {"load", "exists", "describe"})
        => /\ file' = file /\ dirs' = dirs /\ vfile' = vfile
           /\ out'.op = "describe"
                => out' = [inst |-> out'.inst, op |-> "describe", arg |-> "", val |-> "",
                           err |-> "", paths |-> <<cfg[out'.inst]>>]]_vars

\* A load failed on a version folder whose file is not written; the folder is
\* still there and still empty.
C17_Witness ==
    /\ out.op = "load" /\ out.err = "DataAccessError"
    /\ Len(out.paths) = 1 /\ out.paths[1].ver \in dirs
    /\ vfile[out.paths[1].ver] = NoFile

C19_SingleWriterPasses ==
    [][\A i \in Instances :
        (Auto(i) /\ cfg[i].version.load = Null /\ SaveCheck(i, FALSE)
            /\ clean[i] = "saving"
            /\ \A t \in dirs \ {save_path[i].ver} : t < save_path[i].ver)
        => (out'.op = "save" /\ out'.inst = i /\ out'.err = "" /\ out'.val = "ok"
            /\ out'.arg = data[i]
            /\ _get_load_path(cfg[i].filepath, cfg[i].version, FALSE) = Ok(save_path[i])
            /\ vfile[save_path[i].ver] = Encode(data[i]))]_vars

\* Such a save returned, version 1 being older than its own version 2 and no
\* other save being under way.
C19_Witness ==
    \E i \in Instances :
        /\ Auto(i) /\ cfg[i].version.load = Null
        /\ out.op = "save" /\ out.inst = i /\ out.err = "" /\ clean[i] = out.arg
        /\ out.paths[1].ver = 2 /\ vfile[1] # NoFile /\ vfile[2] = Encode(out.arg)
        /\ \A j \in Instances : pc[j] = "idle"

====
